---- MODULE Spec2Model ----
(***************************************************************************)
(* Model of vm_core's ProgramInputs (core/src/inputs/mod.rs) and of the    *)
(* trace layout constants (core/src/lib.rs).                               *)
(*                                                                         *)
(* A u64 is kept at full width as four 16-bit limbs, most significant      *)
(* first, so that the comparison against the 64-bit field modulus is the   *)
(* real one.  A Felt is a record wrapping its canonical u64 value.         *)
(***************************************************************************)
EXTENDS Integers, Sequences, FiniteSets

VARIABLES pc, call, result, inputs, view, parts, located
vars == <<pc, call, result, inputs, view, parts, located>>

\* ------------------------------------------------------------------------
\* Bounds of the model
\* ------------------------------------------------------------------------
MaxStackLen == 2
MaxTapeLen == 2
MaxSets == 2
LongStackExtra == 1

\* ------------------------------------------------------------------------
\* u64 values and field elements
\* ------------------------------------------------------------------------
Limb == 2^16

U64(a, b, c, d) == <<a, b, c, d>>

\* The modulus of the 64-bit field, 2^64 - 2^32 + 1 = 0xFFFFFFFF00000001.
Modulus == U64(Limb - 1, Limb - 1, 0, 1)

RECURSIVE LessFrom(_, _, _)
LessFrom(a, b, i) ==
    IF i > Len(a) THEN FALSE
    ELSE IF a[i] # b[i] THEN a[i] < b[i]
    ELSE LessFrom(a, b, i + 1)

\* a < b for two u64 values
Less(a, b) == LessFrom(a, b, 1)

Ok(v) == [tag |-> "Ok", value |-> v]
Err(e) == [tag |-> "Err", error |-> e]

Felt(v) == [inner |-> v]
as_int(f) == f.inner

\* Mutant: accepts the modulus itself (compares with > instead of >=).
try_into_inclusive(value) ==
    IF Less(value, Modulus) \/ value = Modulus THEN Ok(Felt(value)) ELSE Err("TryFromIntError")

\* u64 -> Felt: fails unless value < modulus
try_into(value) ==
    IF Less(value, Modulus) THEN Ok(Felt(value)) ELSE Err("TryFromIntError")

NotFieldElement(value, field) ==
    [kind |-> "NotFieldElement", value |-> value, field |-> field]
DuplicateAdviceRoot(key) ==
    [kind |-> "DuplicateAdviceRoot", key |-> key]

\* ------------------------------------------------------------------------
\* Advice sets, roots and their byte encoding
\* ------------------------------------------------------------------------
root(advice_set) == advice_set.root

\* little-endian bytes of one u64
u64_le_bytes(v) ==
    <<v[4] % 256, v[4] \div 256, v[3] % 256, v[3] \div 256,
      v[2] % 256, v[2] \div 256, v[1] % 256, v[1] \div 256>>

\* Word -> [u8; 32]
into_bytes(word) ==
    u64_le_bytes(as_int(word[1])) \o u64_le_bytes(as_int(word[2])) \o
    u64_le_bytes(as_int(word[3])) \o u64_le_bytes(as_int(word[4]))

EmptyMap == [k \in {} |-> k]

\* BTreeMap::insert: the map afterwards
Insert(map, key, val) ==
    [k \in (DOMAIN map) \union {key} |-> IF k = key THEN val ELSE map[k]]

\* ------------------------------------------------------------------------
\* ProgramInputs::with_advice_map and the other constructors
\* ------------------------------------------------------------------------
RECURSIVE stack_loop(_, _, _)
stack_loop(stack, i, acc) ==
    IF i = 0 THEN Ok(acc)
    ELSE LET r == try_into(stack[i]) IN
         IF r.tag = "Err"
         THEN Err(NotFieldElement(stack[i], "initial stack value"))
         ELSE stack_loop(stack, i - 1, Append(acc, r.value))

RECURSIVE stack_loop_forward(_, _, _)
stack_loop_forward(stack, i, acc) ==
    IF i > Len(stack) THEN Ok(acc)
    ELSE LET r == try_into(stack[i]) IN
         IF r.tag = "Err"
         THEN Err(NotFieldElement(stack[i], "initial stack value"))
         ELSE stack_loop_forward(stack, i + 1, Append(acc, r.value))

\* Mutant: iterates the stack values without .rev().
init_stack_elements_no_rev(stack) == stack_loop_forward(stack, 1, <<>>)

\* for &value in stack_init.iter().rev() { ... push(element) }
init_stack_elements(stack) == stack_loop(stack, Len(stack), <<>>)

RECURSIVE tape_loop(_, _, _)
tape_loop(tape, i, acc) ==
    IF i > Len(tape) THEN Ok(acc)
    ELSE LET r == try_into(tape[i]) IN
         IF r.tag = "Err"
         THEN Err(NotFieldElement(tape[i], "advice tape value"))
         ELSE tape_loop(tape, i + 1, Append(acc, r.value))

RECURSIVE tape_loop_rev(_, _, _)
tape_loop_rev(tape, i, acc) ==
    IF i = 0 THEN Ok(acc)
    ELSE LET r == try_into(tape[i]) IN
         IF r.tag = "Err"
         THEN Err(NotFieldElement(tape[i], "advice tape value"))
         ELSE tape_loop_rev(tape, i - 1, Append(acc, r.value))

\* Mutant: the tape is walked in reverse like the stack.
advice_tape_elements_rev(tape) == tape_loop_rev(tape, Len(tape), <<>>)

\* for &value in advice_tape { ... push(element) }
advice_tape_elements(tape) == tape_loop(tape, 1, <<>>)

RECURSIVE sets_loop(_, _, _)
sets_loop(sets, i, map) ==
    IF i > Len(sets) THEN Ok(map)
    ELSE LET key == into_bytes(root(sets[i])) IN
         IF key \in DOMAIN map
         THEN Err(DuplicateAdviceRoot(key))
         ELSE sets_loop(sets, i + 1, Insert(map, key, sets[i]))

RECURSIVE sets_loop_overwrite(_, _, _)
sets_loop_overwrite(sets, i, map) ==
    IF i > Len(sets) THEN Ok(map)
    ELSE sets_loop_overwrite(sets, i + 1,
                             Insert(map, into_bytes(root(sets[i])), sets[i]))

RECURSIVE sets_loop_stale_key(_, _, _)
sets_loop_stale_key(sets, i, map) ==
    IF i > Len(sets) THEN Ok(map)
    ELSE LET key == into_bytes(root(sets[1])) IN
         IF key \in DOMAIN map
         THEN Err(DuplicateAdviceRoot(key))
         ELSE sets_loop_stale_key(sets, i + 1, Insert(map, key, sets[i]))

\* Mutant: the result of insert() is ignored, a later set overwrites.
advice_sets_elements_overwrite(sets) == sets_loop_overwrite(sets, 1, EmptyMap)

\* Mutant: the key is computed once, from the first set, outside the loop.
advice_sets_elements_stale_key(sets) == sets_loop_stale_key(sets, 1, EmptyMap)

\* for advice_set in advice_sets { insert(key, advice_set) ... }
advice_sets_elements(sets) == sets_loop(sets, 1, EmptyMap)

ProgramInputs(s, t, m, a) ==
    [stack_init |-> s, advice_tape |-> t, advice_map |-> m, advice_sets |-> a]

\* Mutant: the tape is converted before the stack.
with_advice_map_tape_first(stack, tape, advice_map, advice_sets) ==
    LET t == advice_tape_elements(tape) IN
    IF t.tag = "Err" THEN t
    ELSE LET s == init_stack_elements(stack) IN
         IF s.tag = "Err" THEN s
         ELSE LET a == advice_sets_elements(advice_sets) IN
              IF a.tag = "Err" THEN a
              ELSE Ok(ProgramInputs(s.value, t.value, advice_map, a.value))

with_advice_map(stack, tape, advice_map, advice_sets) ==
    LET s == init_stack_elements(stack) IN
    IF s.tag = "Err" THEN s
    ELSE LET t == advice_tape_elements(tape) IN
         IF t.tag = "Err" THEN t
         ELSE LET a == advice_sets_elements(advice_sets) IN
              IF a.tag = "Err" THEN a
              ELSE Ok(ProgramInputs(s.value, t.value, advice_map, a.value))

new(stack, tape, advice_sets) ==
    with_advice_map(stack, tape, EmptyMap, advice_sets)

from_stack_inputs(stack) == new(stack, <<>>, <<>>)

none == ProgramInputs(<<>>, <<>>, EmptyMap, EmptyMap)

\* accessors
stack_init(self) == self.stack_init
advice_tape(self) == self.advice_tape

\* Mutant: the first two components are returned in the wrong order.
into_parts_swapped(self) ==
    <<self.advice_tape, self.stack_init, self.advice_map, self.advice_sets>>

into_parts(self) ==
    <<self.stack_init, self.advice_tape, self.advice_map, self.advice_sets>>

\* ------------------------------------------------------------------------
\* Trace layout (core/src/lib.rs)
\* ------------------------------------------------------------------------
MIN_STACK_DEPTH == 16

\* utils::range(start, len): the half-open range start..start+len
range(start, len) == [start |-> start, end |-> start + len]

\* Range::contains
contains(r, c) == r.start <= c /\ c < r.end

SYS_TRACE_OFFSET == 0
SYS_TRACE_WIDTH == 2
SYS_TRACE_RANGE == range(SYS_TRACE_OFFSET, SYS_TRACE_WIDTH)

STACK_TRACE_OFFSET == SYS_TRACE_OFFSET + SYS_TRACE_WIDTH
STACK_TRACE_WIDTH == MIN_STACK_DEPTH
STACK_TRACE_RANGE == range(STACK_TRACE_OFFSET, STACK_TRACE_WIDTH)

\* Mutant: the auxiliary table is placed after the wrong region's width.
AUX_TRACE_OFFSET_after_sys == STACK_TRACE_OFFSET + SYS_TRACE_WIDTH

AUX_TRACE_OFFSET == STACK_TRACE_OFFSET + STACK_TRACE_WIDTH
AUX_TRACE_WIDTH == 18
AUX_TRACE_RANGE == range(AUX_TRACE_OFFSET, AUX_TRACE_WIDTH)

TRACE_WIDTH == AUX_TRACE_OFFSET + AUX_TRACE_WIDTH

\* The declared regions, in declaration order.
TraceRegions ==
    <<[name |-> "system", offset |-> SYS_TRACE_OFFSET,
       width |-> SYS_TRACE_WIDTH, range |-> SYS_TRACE_RANGE],
      [name |-> "stack", offset |-> STACK_TRACE_OFFSET,
       width |-> STACK_TRACE_WIDTH, range |-> STACK_TRACE_RANGE],
      [name |-> "auxiliary table", offset |-> AUX_TRACE_OFFSET,
       width |-> AUX_TRACE_WIDTH, range |-> AUX_TRACE_RANGE]>>

\* the regions whose range holds column c
RegionsOf(c) ==
    {TraceRegions[i].name : i \in {j \in 1..Len(TraceRegions) :
                                     contains(TraceRegions[j].range, c)}}

\* ------------------------------------------------------------------------
\* Inputs the callers supply
\* ------------------------------------------------------------------------
Five == U64(0, 0, 0, 5)
MaxValid == U64(Limb - 1, Limb - 1, 0, 0)
MaxU64 == U64(Limb - 1, Limb - 1, Limb - 1, Limb - 1)

RawValues == {Five, MaxValid, Modulus, MaxU64}

SeqsUpTo(S, n) == UNION {[1..k -> S] : k \in 0..n}

\* stacks around and beyond MIN_STACK_DEPTH: all Five but one position
LongStacks ==
    {[i \in 1..n |-> IF i = k THEN v ELSE Five] :
        n \in (MIN_STACK_DEPTH - 1)..(MIN_STACK_DEPTH + LongStackExtra),
        k \in {1, 2}, v \in RawValues}

StackInputs == SeqsUpTo(RawValues, MaxStackLen) \union LongStacks
TapeInputs == SeqsUpTo(RawValues, MaxTapeLen)

Root1 == <<Felt(U64(0, 0, 0, 1)), Felt(U64(0, 0, 0, 2)),
           Felt(U64(0, 0, 0, 3)), Felt(U64(0, 0, 0, 4))>>
Root2 == <<Felt(U64(0, 0, 0, 1)), Felt(U64(0, 0, 0, 2)),
           Felt(U64(0, 0, 0, 3)), Felt(U64(1, 0, 0, 4))>>

\* two variants may commit to the same root
AdviceSets ==
    {[variant |-> "MerkleTree", root |-> Root1],
     [variant |-> "MerklePathSet", root |-> Root1],
     [variant |-> "MerkleTree", root |-> Root2]}

AdviceSetInputs == SeqsUpTo(AdviceSets, MaxSets)

Key1 == [i \in 1..32 |-> 7]
AdviceMaps == {EmptyMap, [k \in {Key1} |-> <<Felt(Five)>>]}

\* ------------------------------------------------------------------------
\* State machine: one caller constructing, reading and decomposing a value
\* ------------------------------------------------------------------------
NoValue == "NoValue"
\* what the caller has read so far: <<>> before the read, <<slice>> after
NoView == [stack_init |-> <<>>, advice_tape |-> <<>>]

Init ==
    /\ pc = "idle"
    /\ call = NoValue
    /\ result = NoValue
    /\ inputs = NoValue
    /\ view = NoView
    /\ parts = NoValue
    /\ located = NoValue

Return(r) ==
    /\ result' = r
    /\ pc' = IF r.tag = "Ok" THEN "built" ELSE "failed"
    /\ inputs' = IF r.tag = "Ok" THEN r.value ELSE NoValue
    /\ UNCHANGED <<view, parts, located>>

New ==
    /\ pc = "idle"
    /\ \E s \in StackInputs, t \in TapeInputs, a \in AdviceSetInputs :
          /\ call' = [op |-> "new", stack_init |-> s, advice_tape |-> t,
                      advice_map |-> EmptyMap, advice_sets |-> a]
          /\ Return(new(s, t, a))

WithAdviceMap ==
    /\ pc = "idle"
    /\ \E s \in StackInputs, t \in TapeInputs, m \in AdviceMaps,
          a \in AdviceSetInputs :
          /\ call' = [op |-> "with_advice_map", stack_init |-> s,
                      advice_tape |-> t, advice_map |-> m, advice_sets |-> a]
          /\ Return(with_advice_map(s, t, m, a))

FromStackInputs ==
    /\ pc = "idle"
    /\ \E s \in StackInputs :
          /\ call' = [op |-> "from_stack_inputs", stack_init |-> s,
                      advice_tape |-> <<>>, advice_map |-> EmptyMap,
                      advice_sets |-> <<>>]
          /\ Return(from_stack_inputs(s))

None ==
    /\ pc = "idle"
    /\ call' = [op |-> "none", stack_init |-> <<>>, advice_tape |-> <<>>,
                advice_map |-> EmptyMap, advice_sets |-> <<>>]
    /\ Return(Ok(none))

StackInit ==
    /\ pc = "built"
    /\ view.stack_init = <<>>
    /\ view' = [view EXCEPT !.stack_init = <<stack_init(inputs)>>]
    /\ UNCHANGED <<pc, call, result, inputs, parts, located>>

AdviceTape ==
    /\ pc = "built"
    /\ view.advice_tape = <<>>
    /\ view' = [view EXCEPT !.advice_tape = <<advice_tape(inputs)>>]
    /\ UNCHANGED <<pc, call, result, inputs, parts, located>>

\* into_parts(self) consumes the value
IntoParts ==
    /\ pc = "built"
    /\ parts' = into_parts(inputs)
    /\ inputs' = NoValue
    /\ pc' = "decomposed"
    /\ UNCHANGED <<call, result, view, located>>

\* a reader of the layout asks which region a column belongs to
LocateColumn ==
    /\ pc = "idle"
    /\ \E c \in 0..TRACE_WIDTH :
          located' = [col |-> c, regions |-> RegionsOf(c)]
    /\ pc' = "located"
    /\ UNCHANGED <<call, result, inputs, view, parts>>

Next ==
    \/ New
    \/ WithAdviceMap
    \/ FromStackInputs
    \/ None
    \/ StackInit
    \/ AdviceTape
    \/ IntoParts
    \/ LocateColumn

Spec == Init /\ [][Next]_vars

\* ------------------------------------------------------------------------
\* Properties
\* ------------------------------------------------------------------------
Called == pc \in {"built", "failed", "decomposed"}
Succeeded == pc \in {"built", "decomposed"}

\* raw values below the modulus
IsFieldValue(v) == Less(v, Modulus)
BadStack == {i \in DOMAIN call.stack_init : ~IsFieldValue(call.stack_init[i])}
BadTape == {i \in DOMAIN call.advice_tape : ~IsFieldValue(call.advice_tape[i])}
AllValid == BadStack = {} /\ BadTape = {}

Largest(S) == CHOOSE i \in S : \A j \in S : j <= i
Smallest(S) == CHOOSE i \in S : \A j \in S : i <= j

\* pairs of positions of supplied advice sets that share a root
SameRootPairs ==
    {p \in (DOMAIN call.advice_sets) \X (DOMAIN call.advice_sets) :
        /\ p[1] < p[2]
        /\ root(call.advice_sets[p[1]]) = root(call.advice_sets[p[2]])}

TreeA == [variant |-> "MerkleTree", root |-> Root1]
PathsA == [variant |-> "MerklePathSet", root |-> Root1]
TreeB == [variant |-> "MerkleTree", root |-> Root2]

\* C1: after a successful construction from valid stack values, stack_init()
\* has the length of the input and its i-th element is the field element of
\* the input's (len-1-i)-th value: the input reversed, last value on top.
C1_StackInitReversed ==
    (Succeeded /\ call.op # "none") =>
        LET s == call.stack_init
            out == stack_init(result.value)
        IN /\ Len(out) = Len(s)
           /\ \A i \in 1..Len(s) : out[i] = Felt(s[Len(s) + 1 - i])
           /\ view.stack_init # <<>> => view.stack_init = <<out>>

C1_Witness ==
    /\ pc = "built"
    /\ call.stack_init = <<Five, MaxValid>>
    /\ view.stack_init = <<<<Felt(MaxValid), Felt(Five)>>>>

\* C2: after a successful construction from valid tape values, advice_tape()
\* equals the input element by element, in the original order and length.
C2_AdviceTapeInOrder ==
    (Succeeded /\ call.op # "none") =>
        LET t == call.advice_tape
            out == advice_tape(result.value)
        IN /\ Len(out) = Len(t)
           /\ \A i \in 1..Len(t) : out[i] = Felt(t[i])
           /\ view.advice_tape # <<>> => view.advice_tape = <<out>>

C2_Witness ==
    /\ pc = "built"
    /\ call.advice_tape = <<Five, MaxValid>>
    /\ view.advice_tape = <<<<Felt(Five), Felt(MaxValid)>>>>

\* C3: if a supplied stack or tape value is >= the modulus, construction
\* returns no ProgramInputs and fails with NotFieldElement carrying an
\* offending value of the sequence its field name designates.
C3_NotFieldElement ==
    (Called /\ ~AllValid) =>
        /\ result.tag = "Err"
        /\ pc = "failed"
        /\ inputs = NoValue
        /\ result.error.kind = "NotFieldElement"
        /\ ~IsFieldValue(result.error.value)
        /\ \/ /\ result.error.field = "initial stack value"
              /\ \E i \in BadStack : call.stack_init[i] = result.error.value
           \/ /\ result.error.field = "advice tape value"
              /\ \E i \in BadTape : call.advice_tape[i] = result.error.value
        /\ BadTape = {} => result.error.field = "initial stack value"
        /\ BadStack = {} => result.error.field = "advice tape value"

C3_Witness ==
    /\ pc = "failed"
    /\ call.stack_init = <<Five>>
    /\ call.advice_tape = <<Five, Modulus>>
    /\ result = Err(NotFieldElement(Modulus, "advice tape value"))

\* C4: with valid stack and tape values, two supplied advice sets with the
\* same root make construction fail with DuplicateAdviceRoot carrying the
\* byte encoding of the shared root; nothing is returned.
C4_DuplicateRootRejected ==
    (Called /\ AllValid /\ SameRootPairs # {}) =>
        /\ result.tag = "Err"
        /\ inputs = NoValue
        /\ result.error.kind = "DuplicateAdviceRoot"
        /\ \E p \in SameRootPairs :
              result.error.key = into_bytes(root(call.advice_sets[p[1]]))

C4_Witness ==
    /\ pc = "failed"
    /\ call.stack_init = <<Five, MaxValid>>
    /\ call.advice_sets = <<TreeA, PathsA>>
    /\ result = Err(DuplicateAdviceRoot(into_bytes(Root1)))

\* C5: with valid stack and tape values and pairwise distinct roots,
\* construction succeeds and advice_sets has one entry per supplied set,
\* each key being the byte encoding of the root of the set stored under it.
C5_DistinctRootsRegistered ==
    (Called /\ AllValid /\ SameRootPairs = {}) =>
        /\ result.tag = "Ok"
        /\ LET m == result.value.advice_sets
               a == call.advice_sets
           IN /\ Cardinality(DOMAIN m) = Len(a)
              /\ \A k \in DOMAIN m : k = into_bytes(root(m[k]))
              /\ \A i \in 1..Len(a) :
                    /\ into_bytes(root(a[i])) \in DOMAIN m
                    /\ m[into_bytes(root(a[i]))] = a[i]

C5_Witness ==
    /\ pc = "built"
    /\ call.advice_sets = <<TreeA, TreeB>>
    /\ DOMAIN inputs.advice_sets = {into_bytes(Root1), into_bytes(Root2)}

\* C6: construction returns an error whenever more than 16 initial stack
\* values are supplied, so a constructed value has stack_init().len() <= 16.
C6_StackDepthBounded ==
    /\ (Called /\ Len(call.stack_init) > MIN_STACK_DEPTH) => result.tag = "Err"
    /\ Succeeded => Len(stack_init(result.value)) <= MIN_STACK_DEPTH

\* C7: each declared region is the half-open range [offset, offset+width),
\* the first starts at column 0, each starts where the previous one ends,
\* TRACE_WIDTH is the sum of the declared widths, and every column below
\* TRACE_WIDTH lies in exactly one region.
RECURSIVE SumWidths(_)
SumWidths(n) == IF n = 0 THEN 0 ELSE TraceRegions[n].width + SumWidths(n - 1)

C7_RegionsPartitionTrace ==
    pc = "located" =>
        /\ \A i \in 1..Len(TraceRegions) :
              /\ TraceRegions[i].range.start = TraceRegions[i].offset
              /\ TraceRegions[i].range.end =
                    TraceRegions[i].offset + TraceRegions[i].width
        /\ TraceRegions[1].offset = 0
        /\ \A i \in 2..Len(TraceRegions) :
              TraceRegions[i].range.start = TraceRegions[i - 1].range.end
        /\ TRACE_WIDTH = SumWidths(Len(TraceRegions))
        /\ located.col < TRACE_WIDTH => Cardinality(located.regions) = 1
        /\ located.col >= TRACE_WIDTH => located.regions = {}

C7_Witness ==
    /\ pc = "located"
    /\ located.col = AUX_TRACE_OFFSET
    /\ located.regions = {"auxiliary table"}

\* C8: the layout has five regions, system, decoder, stack, range checks and
\* auxiliary table, of widths 2, 22, 19, 4 and 18, and TRACE_WIDTH = 65.
ClaimedRegion(c) ==
    IF c < 2 THEN "system"
    ELSE IF c < 2 + 22 THEN "decoder"
    ELSE IF c < 2 + 22 + 19 THEN "stack"
    ELSE IF c < 2 + 22 + 19 + 4 THEN "range checks"
    ELSE "auxiliary table"

C8_FiveRegions ==
    pc = "located" =>
        /\ [i \in 1..Len(TraceRegions) |-> TraceRegions[i].name] =
              <<"system", "decoder", "stack", "range checks", "auxiliary table">>
        /\ [i \in 1..Len(TraceRegions) |-> TraceRegions[i].width] =
              <<2, 22, 19, 4, 18>>
        /\ TRACE_WIDTH = 2 + 22 + 19 + 4 + 18
        /\ located.regions = {ClaimedRegion(located.col)}

\* C9: into_parts returns the stack and tape sequences as stack_init() and
\* advice_tape() showed them before, the advice map passed at construction
\* and the registered advice-set mapping; for none() all four are empty.
C9_IntoPartsLossless ==
    [][(pc = "built" /\ pc' = "decomposed") =>
          /\ parts'[1] = stack_init(inputs)
          /\ parts'[2] = advice_tape(inputs)
          /\ view.stack_init # <<>> => <<parts'[1]>> = view.stack_init
          /\ view.advice_tape # <<>> => <<parts'[2]>> = view.advice_tape
          /\ parts'[3] = call.advice_map
          /\ parts'[4] = inputs.advice_sets
          /\ call.op = "none" =>
                /\ parts'[1] = <<>>
                /\ parts'[2] = <<>>
                /\ DOMAIN parts'[3] = {}
                /\ DOMAIN parts'[4] = {}]_vars

C9_Witness ==
    /\ pc = "decomposed"
    /\ view = [stack_init |-> <<<<Felt(MaxValid), Felt(Five)>>>>,
               advice_tape |-> <<<<Felt(Five)>>>>]
    /\ parts[1] = <<Felt(MaxValid), Felt(Five)>>
    /\ parts[2] = <<Felt(Five)>>
    /\ DOMAIN parts[3] = {Key1}
    /\ Cardinality(DOMAIN parts[4]) = 2

\* C10: the first failure wins.  An invalid stack value is reported, the one
\* last in input order, whatever the tape and the advice sets hold; failing
\* that, the first invalid tape value is reported whatever the advice sets
\* hold; DuplicateAdviceRoot is returned only when all values are valid; a
\* failed construction returns no value.
C10_ValidationOrder ==
    Called =>
        /\ BadStack # {} =>
              result = Err(NotFieldElement(call.stack_init[Largest(BadStack)],
                                           "initial stack value"))
        /\ (BadStack = {} /\ BadTape # {}) =>
              result = Err(NotFieldElement(call.advice_tape[Smallest(BadTape)],
                                           "advice tape value"))
        /\ (result.tag = "Err" /\ result.error.kind = "DuplicateAdviceRoot") =>
              AllValid
        /\ result.tag = "Err" => inputs = NoValue

C10_Witness ==
    /\ pc = "failed"
    /\ call.stack_init = <<Modulus, MaxU64>>
    /\ call.advice_tape = <<MaxU64, Modulus>>
    /\ call.advice_sets = <<TreeA, TreeA>>
    /\ result = Err(NotFieldElement(MaxU64, "initial stack value"))

====
